---- MODULE Spec2Model ----
(***************************************************************************)
(* A model of package lever (src/lever.go): the parameter registry, the    *)
(* three source parsers (readCLI, readConfig, readEnv), the merge done by  *)
(* Parse, and the Param* accessors.                                        *)
(*                                                                         *)
(* A Go string is a sequence of one-character strings, so that splitting,  *)
(* trimming, suffix tests and upper-casing are computed, not assumed.  A   *)
(* Go map[string]T is a function whose domain is the set of its keys.      *)
(***************************************************************************)
EXTENDS Integers, Sequences, FiniteSets, TLC

VARIABLES
    o,             \* Lever.o: the Opts given to New
    expected,      \* Lever.expected: canonical name -> Param
    expectedFull,  \* Lever.expectedFull: canonical name or alias -> Param
    found,         \* Lever.found: the Final Mapping (set by Parse)
    remaining,     \* Lever.remaining (set by Parse)
    status,        \* "new"; "called" once a parser was called directly; "parsed" once
                   \* Parse returned, "read" once a param was then read; or how the
                   \* process ended: "exit0", "exit1", "panic"
    os,            \* what Parse read from the process: Args[1:], Environ(), the file opened
    src,           \* Parse's locals: the four per-source maps it folded
    ret            \* the last call made on the Lever and what it returned

vars == <<o, expected, expectedFull, found, remaining, status, os, src, ret>>

-----------------------------------------------------------------------------
(* Bounds of the model *)

MaxAdds == 2
MaxArgs == 3
MaxParseArgs == 2
MaxEnv == 2
MaxParseEnv == 1
MaxLines == 2

-----------------------------------------------------------------------------
(* Strings *)

Lower == <<"a","b","c","d","e","f","g","h","i","j","k","l","m",
           "n","o","p","q","r","s","t","u","v","w","x","y","z">>
Upper == <<"A","B","C","D","E","F","G","H","I","J","K","L","M",
           "N","O","P","Q","R","S","T","U","V","W","X","Y","Z">>
Digits == <<"0","1","2","3","4","5","6","7","8","9">>

Range(s) == {s[i] : i \in DOMAIN s}

\* unicode.IsLetter(r) || unicode.IsNumber(r), on the characters the model uses
IsLetterOrNumber(c) == c \in Range(Lower) \cup Range(Upper) \cup Range(Digits)

\* unicode.IsSpace, on the characters the model uses
IsSpace(c) == c \in {" ", "\t", "\n", "\r"}

\* the index of the first occurrence of character c in s, or 0
IndexOf(s, c) ==
    IF \E i \in DOMAIN s : s[i] = c
    THEN CHOOSE i \in DOMAIN s : s[i] = c /\ \A j \in 1..(i-1) : s[j] # c
    ELSE 0

\* strings.SplitN(s, sep, 2) for a one-character separator
SplitN2(s, sep) ==
    LET i == IndexOf(s, sep) IN
    IF i = 0 THEN <<s>>
    ELSE <<SubSeq(s, 1, i-1), SubSeq(s, i+1, Len(s))>>

\* strings.HasSuffix(s, suffix)
HasSuffix(s, suffix) ==
    /\ Len(suffix) <= Len(s)
    /\ SubSeq(s, Len(s) - Len(suffix) + 1, Len(s)) = suffix

\* strings.TrimLeftFunc(s, f) with f = "is neither letter nor number"
TrimLeftNonAlnum(s) ==
    IF \E i \in DOMAIN s : IsLetterOrNumber(s[i])
    THEN LET i == CHOOSE k \in DOMAIN s :
                      /\ IsLetterOrNumber(s[k])
                      /\ \A j \in 1..(k-1) : ~IsLetterOrNumber(s[j])
         IN SubSeq(s, i, Len(s))
    ELSE <<>>

\* strings.TrimSpace(s)
TrimSpace(s) ==
    IF \A i \in DOMAIN s : IsSpace(s[i]) THEN <<>>
    ELSE LET a == CHOOSE k \in DOMAIN s :
                      ~IsSpace(s[k]) /\ \A j \in 1..(k-1) : IsSpace(s[j])
             b == CHOOSE k \in DOMAIN s :
                      ~IsSpace(s[k]) /\ \A j \in (k+1)..Len(s) : IsSpace(s[j])
         IN SubSeq(s, a, b)

\* strings.ToUpper(s)
ToUpper(s) ==
    [i \in DOMAIN s |->
        IF \E k \in DOMAIN Lower : Lower[k] = s[i]
        THEN Upper[CHOOSE k \in DOMAIN Lower : Lower[k] = s[i]]
        ELSE s[i]]

\* strings.Replace(s, "-", "_", -1)
ReplaceDashes(s) == [i \in DOMAIN s |-> IF s[i] = "-" THEN "_" ELSE s[i]]

\* strconv.Atoi(v): ok is FALSE where Atoi returns an error
RECURSIVE DigitsValue(_)
DigitsValue(s) ==
    IF s = <<>> THEN 0
    ELSE 10 * DigitsValue(SubSeq(s, 1, Len(s)-1))
         + ((CHOOSE k \in DOMAIN Digits : Digits[k] = s[Len(s)]) - 1)

Atoi(v) ==
    LET signed == v # <<>> /\ v[1] \in {"+", "-"}
        body   == IF signed THEN Tail(v) ELSE v
    IN  IF body = <<>> \/ \E i \in DOMAIN body : body[i] \notin Range(Digits)
        THEN [i |-> 0, ok |-> FALSE]
        ELSE [i |-> IF signed /\ v[1] = "-" THEN 0 - DigitsValue(body)
                    ELSE DigitsValue(body),
              ok |-> TRUE]

\* all sequences over S of length at most n
SeqsUpTo(S, n) == UNION {[1..k -> S] : k \in 0..n}

-----------------------------------------------------------------------------
(* Go maps and slices *)

EmptyMap == [k \in {} |-> <<>>]

Has(m, k) == k \in DOMAIN m

Put(m, k, v) == [x \in DOMAIN m \cup {k} |-> IF x = k THEN v ELSE m[x]]

\* found[k] = append(found[k], v)
AppendTo(m, k, v) == Put(m, k, IF Has(m, k) THEN Append(m[k], v) ELSE <<v>>)

\* a []string that may be nil
NilSlice == [isNil |-> TRUE, elems |-> <<>>]
Slice(s) == [isNil |-> FALSE, elems |-> s]

-----------------------------------------------------------------------------
(* Params and the registry *)

Param(name, aliases, default, defaultMulti, flag, disallow) ==
    [Name |-> name, Aliases |-> aliases, Default |-> default,
     DefaultMulti |-> defaultMulti, Flag |-> flag,
     DisallowInConfigFile |-> disallow]

configName(p) == TrimLeftNonAlnum(p.Name)

flagDefault(p) == p.Default = <<"t","r","u","e">>

Opts(defaultConfigFile, disallowConfigFile, allowMissingConfigFile) ==
    [DefaultConfigFile |-> defaultConfigFile,
     DisallowConfigFile |-> disallowConfigFile,
     AllowMissingConfigFile |-> allowMissingConfigFile]

AppName == <<"m","y","-","a","p","p">>

nConfig  == <<"-","-","c","o","n","f","i","g">>
nExample == <<"-","-","e","x","a","m","p","l","e">>
nHelp    == <<"-","-","h","e","l","p">>

ConfigParam(opts) ==
    Param(nConfig, <<Tail(nConfig)>>, opts.DefaultConfigFile, NilSlice, FALSE, TRUE)
ExampleParam == Param(nExample, <<Tail(nExample)>>, <<>>, NilSlice, TRUE, TRUE)
HelpParam == Param(nHelp, <<Tail(nHelp), <<"-","h">>>>, <<>>, NilSlice, TRUE, TRUE)

\* Lever.Add, on the pair of lookup tables
AddTo(reg, p) ==
    [expected |-> Put(reg.expected, p.Name, p),
     expectedFull |->
        [n \in DOMAIN reg.expectedFull \cup {p.Name} \cup Range(p.Aliases) |->
            IF n = p.Name \/ n \in Range(p.Aliases) THEN p ELSE reg.expectedFull[n]]]

\* New(appName, o)
New(opts) ==
    LET empty == [expected |-> EmptyMap, expectedFull |-> EmptyMap]
        withConfig ==
            IF ~opts.DisallowConfigFile
            THEN AddTo(AddTo(empty, ConfigParam(opts)), ExampleParam)
            ELSE empty
    IN AddTo(withConfig, HelpParam)

-----------------------------------------------------------------------------
(* readCLI *)

sTrue  == <<"t","r","u","e">>
sFalse == <<"f","a","l","s","e">>
DashDash == <<"-","-">>

\* a scan that never stops at "--"
argIsTerminatorNever(arg) == FALSE

\* the test that ends the scan: arg == "--"
argIsTerminator(arg) == arg = DashDash

\* the occurrence a flag token records
flagOccurrence(p) == IF flagDefault(p) THEN sFalse ELSE sTrue

\* a scan that takes the next token even when the value came inline
takesNextArgAlways(argValOk, args) == Len(args) > 0

\* whether a matched non-flag argument takes the next token as its value
takesNextArg(argValOk, args) == ~argValOk /\ Len(args) > 0

\* a scan that keeps only the name part of an unmatched argument
unmatchedArgName(arg, argName) == argName

\* what an unmatched argument adds to remaining
unmatchedArg(arg, argName) == arg

\* the for loop of readCLI, from the state (args, found, remaining)
RECURSIVE readCLILoop(_, _, _, _)
readCLILoop(full, args0, fnd, rem) ==
    IF Len(args0) = 0 THEN [found |-> fnd, remaining |-> rem]
    ELSE
      LET arg  == Head(args0)
          args == Tail(args0)
      IN
      IF argIsTerminator(arg) THEN [found |-> fnd, remaining |-> rem \o args]
      ELSE
        LET argParts == SplitN2(arg, "=")
            argName  == argParts[1]
            argValOk == Len(argParts) = 2
            argVal   == IF argValOk THEN argParts[2] ELSE <<>>
        IN
        IF ~Has(full, argName)
        THEN readCLILoop(full, args, fnd, Append(rem, unmatchedArg(arg, argName)))
        ELSE
          LET p == full[argName] IN
          IF p.Flag
          THEN readCLILoop(full, args, AppendTo(fnd, p.Name, flagOccurrence(p)), rem)
          ELSE IF takesNextArg(argValOk, args)
          THEN readCLILoop(full, Tail(args), AppendTo(fnd, p.Name, Head(args)), rem)
          ELSE readCLILoop(full, args, AppendTo(fnd, p.Name, argVal), rem)

readCLI(full, args) == readCLILoop(full, args, EmptyMap, <<>>)

-----------------------------------------------------------------------------
(* readConfig *)

\* the test that a line's key selects the expected param named n
keyMatches(n, name) == HasSuffix(n, name)

\* the inner loop: append val to every expected param the key selects
addMatches(exp, fnd, name, val) ==
    LET hit == {n \in DOMAIN exp : keyMatches(n, name)} IN
    [n \in DOMAIN fnd \cup hit |->
        IF n \in hit
        THEN (IF Has(fnd, n) THEN Append(fnd[n], val) ELSE <<val>>)
        ELSE fnd[n]]

\* rr.ReadString('\n') on what is left of the stream r: the text up to and
\* including the first newline; at the end of the stream, io.EOF together
\* with whatever text was left.  The stream is one that reads to its end
\* without any other error.
ReadString(r) ==
    LET i == IndexOf(r, "\n") IN
    IF i = 0 THEN [line |-> r, rest |-> <<>>, eof |-> TRUE]
    ELSE [line |-> SubSeq(r, 1, i), rest |-> SubSeq(r, i+1, Len(r)), eof |-> FALSE]

\* the for loop of readConfig; isNil tells a nil map from an empty one
RECURSIVE readConfigLoop(_, _, _)
readConfigLoop(exp, r, fnd) ==
    LET rd == ReadString(r) IN
    IF rd.eof THEN [found |-> fnd, isNil |-> FALSE, err |-> FALSE]
    ELSE
      LET line == TrimSpace(rd.line) IN
      IF line = <<>> \/ line[1] = "#" THEN readConfigLoop(exp, rd.rest, fnd)
      ELSE
        LET parts == SplitN2(line, ":") IN
        IF Len(parts) # 2 THEN [found |-> EmptyMap, isNil |-> TRUE, err |-> TRUE]
        ELSE readConfigLoop(exp, rd.rest,
                            addMatches(exp, fnd, parts[1], TrimSpace(parts[2])))

readConfig(exp, r) == readConfigLoop(exp, r, EmptyMap)

-----------------------------------------------------------------------------
(* readEnv *)

envify(s) == ReplaceDashes(ToUpper(s))

\* the key readEnv files param p under
envKey(p) == envify(AppName) \o <<"_">> \o envify(configName(p))

\* The expectedEnv maps the first loop of readEnv can build.  It ranges over
\* the Go map f.expected in an unspecified order and a later param overwrites
\* an earlier one filed under the same key, so any of them may be the one left.
RECURSIVE expectedEnvsOver(_, _)
expectedEnvsOver(exp, keys) ==
    IF keys = {} THEN {EmptyMap}
    ELSE LET k == CHOOSE x \in keys : TRUE IN
         {Put(m, k, exp[n]) : m \in expectedEnvsOver(exp, keys \ {k}),
                              n \in {x \in DOMAIN exp : envKey(exp[x]) = k}}

ExpectedEnvs(exp) == expectedEnvsOver(exp, {envKey(exp[n]) : n \in DOMAIN exp})

\* the second loop of readEnv; every entry holds a "=", as those of
\* os.Environ() do
RECURSIVE readEnvLoop(_, _, _)
readEnvLoop(expectedEnv, environ, fnd) ==
    IF environ = <<>> THEN fnd
    ELSE
      LET parts == SplitN2(Head(environ), "=")
          name  == parts[1]
          val   == parts[2]
      IN
      IF Has(expectedEnv, name)
      THEN readEnvLoop(expectedEnv, Tail(environ),
                       AppendTo(fnd, expectedEnv[name].Name, val))
      ELSE readEnvLoop(expectedEnv, Tail(environ), fnd)

readEnv(expectedEnv, environ) == readEnvLoop(expectedEnv, environ, EmptyMap)

-----------------------------------------------------------------------------
(* Parse and its helpers *)

defaultsAsFound(exp) ==
    LET has == {n \in DOMAIN exp :
                    ~exp[n].DefaultMulti.isNil \/ exp[n].Default # <<>>}
    IN [n \in has |->
            IF ~exp[n].DefaultMulti.isNil THEN exp[n].DefaultMulti.elems
            ELSE <<exp[n].Default>>]

\* a merge that appends the lower source's values to the higher one's
mergeFoundAppend(into, from) ==
    [n \in DOMAIN into \cup DOMAIN from |->
        (IF Has(into, n) THEN into[n] ELSE <<>>)
            \o (IF Has(from, n) THEN from[n] ELSE <<>>)]

mergeFound(into, from) ==
    [n \in DOMAIN into \cup DOMAIN from |->
        IF Has(into, n) THEN into[n] ELSE from[n]]

\* What os.Open(fn) gives: err is "none" (data is the file's text),
\* "notexist" (os.IsNotExist holds of the error) or "other".
File(err, data) == [err |-> err, data |-> data]
NoFile == File("unopened", <<>>)

\* maybeReadConfig(found), given what opening the file it names gives.  fn is
\* the file name, "" when no file is named and nothing is opened.
maybeReadConfig(exp, opts, fnd, file) ==
    LET fn == IF Has(fnd, nConfig) /\ fnd[nConfig][1] # <<>> THEN fnd[nConfig][1]
              ELSE exp[nConfig].Default
        none == [fn |-> fn, found |-> EmptyMap, isNil |-> TRUE, err |-> FALSE]
    IN
    IF fn = <<>> THEN none
    ELSE IF file.err # "none"
    THEN (IF opts.AllowMissingConfigFile /\ file.err = "notexist" THEN none
          ELSE [none EXCEPT !.err = TRUE])
    ELSE [fn |-> fn] @@ readConfig(exp, file.data)

\* true when the command-line pass recorded "true" first for the flag `name`
cliAsks(cliFound, name) == Has(cliFound, name) /\ cliFound[name][1] = sTrue

NoSrc == [cli |-> EmptyMap, env |-> EmptyMap, file |-> EmptyMap, def |-> EmptyMap]

\* Parse(), given os.Args[1:], os.Environ(), the expectedEnv readEnv built and
\* what opening the config file gives: how it ends ("parsed", or the process
\* exits), the fields it sets, and the per-source maps it folded.
ParseResult(exp, full, opts, args, environ, expectedEnv, file) ==
    LET cli == readCLI(full, args)
        foundEnv == readEnv(expectedEnv, environ)
        found1 == mergeFound(cli.found, foundEnv)
        cfg == IF opts.DisallowConfigFile
               THEN [fn |-> <<>>, found |-> EmptyMap, isNil |-> TRUE, err |-> FALSE]
               ELSE maybeReadConfig(exp, opts, found1, file)
        found2 == mergeFound(found1, cfg.found)
        foundDef == defaultsAsFound(exp)
        exited(st, environRead, fileRead) ==
            [status |-> st, found |-> EmptyMap, remaining |-> <<>>,
             os |-> [Args |-> args, Environ |-> environRead, File |-> fileRead],
             src |-> [NoSrc EXCEPT !.cli = cli.found]]
    IN
    IF cliAsks(cli.found, nHelp) \/ cliAsks(cli.found, nExample)
    THEN exited("exit0", <<>>, NoFile)
    ELSE IF cfg.err THEN exited("exit1", environ, file)
    ELSE [status |-> "parsed",
          found |-> mergeFound(found2, foundDef),
          remaining |-> cli.remaining,
          os |-> [Args |-> args, Environ |-> environ,
                  File |-> IF cfg.fn # <<>> THEN file ELSE NoFile],
          src |-> [cli |-> cli.found, env |-> foundEnv,
                   file |-> cfg.found, def |-> foundDef]]

-----------------------------------------------------------------------------
(* Accessors.  panic is TRUE where the Go code indexes an empty slice. *)

paramSingleStr(fnd, name) ==
    IF Has(fnd, name)
    THEN (IF fnd[name] = <<>> THEN [v |-> <<>>, ok |-> FALSE, panic |-> TRUE]
          ELSE [v |-> fnd[name][1], ok |-> TRUE, panic |-> FALSE])
    ELSE [v |-> <<>>, ok |-> FALSE, panic |-> FALSE]

ParamStr(fnd, name) == paramSingleStr(fnd, name)

ParamStrs(fnd, name) ==
    [vs |-> IF Has(fnd, name) THEN fnd[name] ELSE <<>>,
     ok |-> Has(fnd, name), panic |-> FALSE]

ParamInt(fnd, name) ==
    LET s == paramSingleStr(fnd, name) IN
    IF s.panic THEN [i |-> 0, ok |-> FALSE, panic |-> TRUE]
    ELSE IF ~s.ok \/ ~Atoi(s.v).ok THEN [i |-> 0, ok |-> FALSE, panic |-> FALSE]
    ELSE [i |-> Atoi(s.v).i, ok |-> TRUE, panic |-> FALSE]

ParamInts(fnd, name) ==
    LET s == ParamStrs(fnd, name) IN
    IF ~s.ok \/ \E k \in DOMAIN s.vs : ~Atoi(s.vs[k]).ok
    THEN [is |-> <<>>, ok |-> FALSE, panic |-> FALSE]
    ELSE [is |-> [k \in DOMAIN s.vs |-> Atoi(s.vs[k]).i], ok |-> TRUE, panic |-> FALSE]

ParamFlag(fnd, full, name) ==
    LET s == paramSingleStr(fnd, name) IN
    IF s.panic THEN [b |-> FALSE, panic |-> TRUE]
    ELSE IF ~Has(full, name) THEN [b |-> s.v # <<>>, panic |-> FALSE]
    ELSE IF s.v = <<>> \/ s.v = sFalse
    THEN [b |-> flagDefault(full[name]), panic |-> FALSE]
    ELSE [b |-> ~flagDefault(full[name]), panic |-> FALSE]

-----------------------------------------------------------------------------
(* The inputs the model draws from *)

nBar    == <<"-","-","b","a","r">>
nBar1   == <<"-","b","a","r">>
nFooBar == <<"-","-","f","o","o","-","b","a","r">>
nFlag   == <<"-","-","f","l","a","g">>
nByz    == <<"-","-","b","y","z">>
nUnk    == <<"-","-","u","n","k">>
aB      == <<"-","b">>
aF      == <<"-","f">>
aH      == <<"-","h">>

\* the Params the application may Add; two of them declare the name --bar,
\* so that an Add may replace an earlier one
ParamPool ==
    { Param(nBar, <<aB>>, <<"7">>, NilSlice, FALSE, FALSE),
      Param(nBar, <<>>, <<>>, NilSlice, FALSE, FALSE),
      Param(nBar1, <<>>, <<>>, Slice(<< <<"1">>, <<"x">> >>), FALSE, FALSE),
      Param(nFooBar, <<>>, <<>>, NilSlice, FALSE, FALSE),
      Param(nFlag, <<aF>>, sTrue, NilSlice, TRUE, FALSE),
      Param(nByz, <<>>, <<>>, Slice(<<>>), FALSE, FALSE) }

\* the Opts the application may give to New (nil is the first)
OptsPool ==
    { Opts(<<>>, FALSE, FALSE),
      Opts(<<>>, TRUE, FALSE),
      Opts(<<"d">>, FALSE, TRUE) }

WithValue(name, val) == name \o <<"=">> \o val

\* command-line tokens: bare names and aliases of non-flag and flag params,
\* names with an inline value, values, and "--"
CLITokens ==
    { nBar, WithValue(aB, <<"x">>), WithValue(nBar, <<"=","x">>),
      nFlag, aH, WithValue(aH, <<"x">>),
      <<"x">>, <<"=","x">>, DashDash }

\* environment entries, each of the form key=val
EnvEntries ==
    { WithValue(<<"M","Y","_","A","P","P","_","B","A","R">>, <<"e">>),
      WithValue(<<"M","Y","_","A","P","P","_","F","O","O","_","B","A","R">>, <<"a","=","b">>),
      WithValue(<<"M","Y","_","A","P","P","_","F","O","O","B","A","R">>, <<"e">>),
      WithValue(<<"M","Y","_","A","P","P","_","B">>, <<"e">>) }

\* config-file lines, without their newline
ConfigLines ==
    { <<"b","a","r",":"," ","w">>,
      <<"-","b","a","r",":","v">>,
      <<"p",":","1">>,
      <<"#"," ","c">>,
      <<"o","o","p","s">>,
      <<" ">> }

\* the text of a stream made of the given lines, each but the last ended by
\* a newline
RECURSIVE JoinLines(_)
JoinLines(ls) ==
    IF ls = <<>> THEN <<>>
    ELSE IF Len(ls) = 1 THEN ls[1]
    ELSE ls[1] \o <<"\n">> \o JoinLines(Tail(ls))

\* config streams: up to MaxLines lines, the last one ended by a newline or not
ConfigStreams ==
    {JoinLines(ls) \o t : ls \in SeqsUpTo(ConfigLines, MaxLines),
                          t \in {<<>>, <<"\n">>}}

\* what Parse is run on
ParseTokens ==
    { WithValue(nBar, <<"x">>), WithValue(aB, <<"7">>), nFlag, aH,
      WithValue(nConfig, <<"c">>) }
ParseEnvEntries ==
    { WithValue(<<"M","Y","_","A","P","P","_","B","A","R">>, <<"e">>),
      WithValue(<<"M","Y","_","A","P","P","_","B","Y","Z">>, <<"2">>) }
ParseFiles ==
    { File("notexist", <<>>), File("other", <<>>),
      File("none", <<"b","a","r",":","w","\n","b","a","r",":","v","\n">>),
      File("none", <<"o","o","p","s","\n">>),
      File("none", <<"p",":","1","\n","b","y","z",":","3">>) }

-----------------------------------------------------------------------------
(* The state machine *)

NoCall == [op |-> "none"]

Init ==
    /\ o \in OptsPool
    /\ expected = New(o).expected
    /\ expectedFull = New(o).expectedFull
    /\ found = EmptyMap
    /\ remaining = <<>>
    /\ status = "new"
    /\ os = [Args |-> <<>>, Environ |-> <<>>, File |-> NoFile]
    /\ src = NoSrc
    /\ ret = NoCall

\* the names the application has added
Added == DOMAIN expected \ {nConfig, nExample, nHelp}

\* f.Add(p), while the application declares at most MaxAdds names
Add ==
    /\ status = "new"
    /\ \E p \in ParamPool :
        /\ Cardinality(Added \cup {p.Name}) <= MaxAdds
        /\ \E reg \in {AddTo([expected |-> expected,
                                expectedFull |-> expectedFull], p)} :
            /\ expected' = reg.expected
            /\ expectedFull' = reg.expectedFull
        /\ ret' = [op |-> "Add"]
    /\ UNCHANGED <<o, found, remaining, status, os, src>>

\* f.readCLI(args)
ReadCLI ==
    /\ status = "new"
    /\ \E args \in SeqsUpTo(CLITokens, MaxArgs) :
       \E r \in {readCLI(expectedFull, args)} :
        ret' = [op |-> "readCLI", args |-> args,
                found |-> r.found, remaining |-> r.remaining]
    /\ status' = "called"
    /\ UNCHANGED <<o, expected, expectedFull, found, remaining, os, src>>

\* f.readConfig(r)
ReadConfig ==
    /\ status = "new"
    /\ \E r \in ConfigStreams :
       \E c \in {readConfig(expected, r)} :
        ret' = [op |-> "readConfig", r |-> r,
                found |-> c.found, isNil |-> c.isNil, err |-> c.err]
    /\ status' = "called"
    /\ UNCHANGED <<o, expected, expectedFull, found, remaining, os, src>>

\* f.readEnv(environ)
ReadEnv ==
    /\ status = "new"
    /\ \E expectedEnv \in ExpectedEnvs(expected) :
       \E environ \in SeqsUpTo(EnvEntries, MaxEnv) :
        ret' = [op |-> "readEnv", environ |-> environ,
                found |-> readEnv(expectedEnv, environ)]
    /\ status' = "called"
    /\ UNCHANGED <<o, expected, expectedFull, found, remaining, os, src>>

\* f.Parse()
Parse ==
    /\ status = "new"
    /\ \E expectedEnv \in ExpectedEnvs(expected) :
       \E args \in SeqsUpTo(ParseTokens, MaxParseArgs) :
       \E environ \in SeqsUpTo(ParseEnvEntries, MaxParseEnv) :
       \E file \in ParseFiles :
       \E r \in {ParseResult(expected, expectedFull, o, args, environ,
                               expectedEnv, file)} :
        /\ status' = r.status
        /\ found' = r.found
        /\ remaining' = r.remaining
        /\ os' = r.os
        /\ src' = r.src
    /\ ret' = [op |-> "Parse"]
    /\ UNCHANGED <<o, expected, expectedFull>>

\* the names the application asks the accessors for
AskedNames == Added \cup {nUnk}

\* an accessor call: it sets no field of the Lever, and may panic
Accessed(op, name, r) ==
    /\ ret' = [op |-> op, name |-> name, r |-> r]
    /\ status' = IF r.panic THEN "panic" ELSE "read"
    /\ UNCHANGED <<o, expected, expectedFull, found, remaining, os, src>>

CallParamStr ==
    /\ status = "parsed"
    /\ \E name \in AskedNames : Accessed("ParamStr", name, ParamStr(found, name))

CallParamStrs ==
    /\ status = "parsed"
    /\ \E name \in AskedNames : Accessed("ParamStrs", name, ParamStrs(found, name))

CallParamInt ==
    /\ status = "parsed"
    /\ \E name \in AskedNames : Accessed("ParamInt", name, ParamInt(found, name))

CallParamInts ==
    /\ status = "parsed"
    /\ \E name \in AskedNames : Accessed("ParamInts", name, ParamInts(found, name))

CallParamFlag ==
    /\ status = "parsed"
    /\ \E name \in AskedNames :
        Accessed("ParamFlag", name, ParamFlag(found, expectedFull, name))

CallParamRest ==
    /\ status = "parsed"
    /\ ret' = [op |-> "ParamRest", r |-> remaining]
    /\ status' = "read"
    /\ UNCHANGED <<o, expected, expectedFull, found, remaining, os, src>>

Next ==
    \/ Add
    \/ ReadCLI
    \/ ReadConfig
    \/ ReadEnv
    \/ Parse
    \/ CallParamStr
    \/ CallParamStrs
    \/ CallParamInt
    \/ CallParamInts
    \/ CallParamFlag
    \/ CallParamRest

Spec == Init /\ [][Next]_vars

\* the registry and the command-line parser alone
NextCLI ==
    \/ Add
    \/ ReadCLI

SpecCLI == Init /\ [][NextCLI]_vars

\* the registry and Parse alone
NextParse ==
    \/ Add
    \/ Parse

SpecParse == Init /\ [][NextParse]_vars

-----------------------------------------------------------------------------
(* Vocabulary of the properties *)

\* Parse has returned: found is the Final Mapping
Parsed == status \in {"parsed", "read", "panic"}

\* the value of map m at k, the empty sequence when k is not a key
ValuesOf(m, k) == IF Has(m, k) THEN m[k] ELSE <<>>

\* the name part of a command-line token: the text before its first "="
NamePart(tok) == IF IndexOf(tok, "=") = 0 THEN tok
                 ELSE SubSeq(tok, 1, IndexOf(tok, "=") - 1)

HasInline(tok) == IndexOf(tok, "=") # 0

InlineValue(tok) == SubSeq(tok, IndexOf(tok, "=") + 1, Len(tok))

\* the token names a declared, non-flag parameter
NamesNonFlag(full, tok) == Has(full, NamePart(tok)) /\ ~full[NamePart(tok)].Flag

\* How the scan treats each position of args: "name" (scanned as a name),
\* "value" (consumed as the value of the non-flag parameter before it) or
\* "rest" (after a "--" scanned as a name).  RolesUpTo gives the first k.
RECURSIVE RolesUpTo(_, _, _)
RolesUpTo(full, args, k) ==
    IF k = 0 THEN <<>>
    ELSE IF k = 1 THEN <<"name">>
    ELSE LET R == RolesUpTo(full, args, k-1) IN
         Append(R,
            IF R[k-1] = "rest" \/ (R[k-1] = "name" /\ args[k-1] = DashDash)
            THEN "rest"
            ELSE IF /\ R[k-1] = "name"
                    /\ NamesNonFlag(full, args[k-1])
                    /\ ~HasInline(args[k-1])
            THEN "value"
            ELSE "name")

Roles(full, args) == RolesUpTo(full, args, Len(args))

\* the subsequence of s at the positions in keep
RECURSIVE SubUpTo(_, _, _)
SubUpTo(s, keep, k) ==
    IF k = 0 THEN <<>>
    ELSE IF k \in keep THEN Append(SubUpTo(s, keep, k-1), s[k])
    ELSE SubUpTo(s, keep, k-1)

Sub(s, keep) == SubUpTo(s, keep, Len(s))

\* args with the token at position i split at its first "=" into two tokens
SplitAt(args, i) ==
    SubSeq(args, 1, i-1) \o <<NamePart(args[i]), InlineValue(args[i])>>
        \o SubSeq(args, i+1, Len(args))

\* the lines of a stream: the texts between its newlines, the last one being
\* what follows the last newline when that is not empty
RECURSIVE StreamLines(_)
StreamLines(r) ==
    IF r = <<>> THEN <<>>
    ELSE IF IndexOf(r, "\n") = 0 THEN <<r>>
    ELSE <<SubSeq(r, 1, IndexOf(r, "\n") - 1)>>
            \o StreamLines(SubSeq(r, IndexOf(r, "\n") + 1, Len(r)))

\* a line that is neither blank nor a comment and has no ":"
Malformed(line) ==
    LET t == TrimSpace(line) IN
    t # <<>> /\ t[1] # "#" /\ IndexOf(t, ":") = 0

\* a line of the form key:value
KeyValue(line) ==
    LET t == TrimSpace(line) IN
    t # <<>> /\ t[1] # "#" /\ IndexOf(t, ":") # 0

LineKey(line) == SplitN2(TrimSpace(line), ":")[1]
LineValue(line) == TrimSpace(SplitN2(TrimSpace(line), ":")[2])

\* every line of the stream ends with a newline
Terminated(r) == r = <<>> \/ r[Len(r)] = "\n"

-----------------------------------------------------------------------------
(* C1 *)

\* the per-source maps, highest precedence first
Sources == <<src.cli, src.env, src.file, src.def>>

\* C1: once Parse has returned, the Final Mapping holds for every declared
\* parameter exactly the value sequence of the highest-precedence source
\* (command line, environment, config file, defaults) that has the parameter,
\* and has no entry for a parameter that no source has.
C1_AllOrNothing ==
    Parsed =>
        \A n \in DOMAIN expected :
            LET has == {i \in 1..4 : Has(Sources[i], n)} IN
            IF has = {} THEN ~Has(found, n)
            ELSE /\ Has(found, n)
                 /\ found[n] = Sources[CHOOSE i \in has : \A j \in has : i <= j][n]

\* a parameter all four sources have, the command line with two values
C1_Witness ==
    /\ status = "parsed"
    /\ \E n \in DOMAIN expected :
        /\ \A i \in 1..4 : Has(Sources[i], n)
        /\ Len(src.cli[n]) = 2
        /\ src.cli[n] # src.env[n] /\ src.env[n] # src.file[n]
        /\ found[n] = src.cli[n]

-----------------------------------------------------------------------------
(* C2 *)

\* C2: for a flag declared with Default "true", ParamFlag after Parse
\* returns false when the command line gave the flag, and true when no
\* source gave it.
C2_FlagDefaultTrue ==
    (/\ ret.op = "ParamFlag"
     /\ status = "read"
     /\ Has(expected, ret.name)
     /\ expected[ret.name].Flag
     /\ expected[ret.name].Default = sTrue)
    => /\ Has(src.cli, ret.name) => ret.r.b = FALSE
       /\ (\A i \in 1..3 : ~Has(Sources[i], ret.name)) => ret.r.b = TRUE

-----------------------------------------------------------------------------
(* C3 *)

NoDefault(p) == p.DefaultMulti.isNil /\ p.Default = <<>>
DefaultValues(p) == IF ~p.DefaultMulti.isNil THEN p.DefaultMulti.elems
                    ELSE <<p.Default>>

\* C3: for a declared parameter that no source mentions, ParamStr,
\* ParamStrs, ParamInt and ParamInts return normally; they report not-found
\* when no default was declared and the declared default as found otherwise
\* (ParamStr its first value, the int accessors its values where they are
\* integers).
C3_UnmentionedDefaults ==
    (/\ ret.op \in {"ParamStr", "ParamStrs", "ParamInt", "ParamInts"}
     /\ Has(expected, ret.name)
     /\ \A i \in 1..3 : ~Has(Sources[i], ret.name))
    => LET p == expected[ret.name]
           d == DefaultValues(p)
       IN
       /\ ~ret.r.panic
       /\ NoDefault(p) => ~ret.r.ok
       /\ (~NoDefault(p) /\ ret.op = "ParamStr") => ret.r.ok /\ ret.r.v = d[1]
       /\ (~NoDefault(p) /\ ret.op = "ParamStrs") => ret.r.ok /\ ret.r.vs = d
       /\ (~NoDefault(p) /\ ret.op = "ParamInt" /\ Atoi(d[1]).ok)
            => ret.r.ok /\ ret.r.i = Atoi(d[1]).i
       /\ (~NoDefault(p) /\ ret.op = "ParamInts"
             /\ \A k \in DOMAIN d : Atoi(d[k]).ok)
            => ret.r.ok /\ ret.r.is = [k \in DOMAIN d |-> Atoi(d[k]).i]

-----------------------------------------------------------------------------
(* C4 *)

\* the position of the "--" scanned as a name, 0 when there is none
TerminatorAt(full, args) ==
    LET R == Roles(full, args)
        at == {i \in 1..Len(args) : R[i] = "name" /\ args[i] = DashDash}
    IN IF at = {} THEN 0 ELSE CHOOSE i \in at : TRUE

\* C4: when readCLI scans a "--" as a name, the tokens after it are the tail
\* of the remainder, verbatim and in order, the "--" is not in the remainder,
\* and what is found is what the tokens before the "--" alone give.
C4_TerminatorStopsMatching ==
    (ret.op = "readCLI" /\ TerminatorAt(expectedFull, ret.args) # 0)
    => LET t == TerminatorAt(expectedFull, ret.args)
           before == readCLI(expectedFull, SubSeq(ret.args, 1, t-1))
           after == SubSeq(ret.args, t+1, Len(ret.args))
       IN /\ ret.found = before.found
          /\ ret.remaining = before.remaining \o after
          /\ Len(ret.remaining) =
               Cardinality({i \in 1..(t-1) :
                    /\ Roles(expectedFull, ret.args)[i] = "name"
                    /\ ~Has(expectedFull, NamePart(ret.args[i]))}) + Len(after)

\* a "--" followed by a token that names a declared parameter
C4_Witness ==
    /\ ret.op = "readCLI"
    /\ TerminatorAt(expectedFull, ret.args) # 0
    /\ \E i \in DOMAIN ret.args :
        /\ i > TerminatorAt(expectedFull, ret.args)
        /\ Has(expectedFull, NamePart(ret.args[i]))
        /\ ret.remaining[Len(ret.remaining) - (Len(ret.args) - i)] = ret.args[i]
    /\ ret.found # EmptyMap

-----------------------------------------------------------------------------
(* C5 *)

\* the positions holding a token N=V with N a declared non-flag name or alias
InlinePositions(full, args) ==
    {i \in 1..Len(args) : HasInline(args[i]) /\ NamesNonFlag(full, args[i])}

\* C5 as claimed: splitting any token N=V of a non-flag parameter into the two
\* tokens N, V leaves the result of readCLI unchanged.
C5_SplitAnywhere ==
    ret.op = "readCLI" =>
        \A i \in InlinePositions(expectedFull, ret.args) :
            LET two == readCLI(expectedFull, SplitAt(ret.args, i)) IN
            /\ two.found = ret.found
            /\ two.remaining = ret.remaining

\* C5 amended: splitting a token N=V, N a declared non-flag name or alias
\* other than "--", that readCLI scans as a name (it is not taken as the value
\* of the parameter before it and does not follow a "--") into the two
\* tokens N, V leaves the found values and the remainder unchanged.
C5_SplitInNamePosition ==
    ret.op = "readCLI" =>
        \A i \in InlinePositions(expectedFull, ret.args) :
            (/\ Roles(expectedFull, ret.args)[i] = "name"
             /\ NamePart(ret.args[i]) # DashDash)
            => LET two == readCLI(expectedFull, SplitAt(ret.args, i)) IN
               /\ two.found = ret.found
               /\ two.remaining = ret.remaining

\* a token N=V scanned as a name, with a token after it, and with a value
\* that itself holds a "="
C5_Witness ==
    /\ ret.op = "readCLI"
    /\ \E i \in InlinePositions(expectedFull, ret.args) :
        /\ Roles(expectedFull, ret.args)[i] = "name"
        /\ i < Len(ret.args)
        /\ HasInline(InlineValue(ret.args[i]))
        /\ InlineValue(ret.args[i]) \in Range(ret.found[expectedFull[NamePart(ret.args[i])].Name])

-----------------------------------------------------------------------------
(* C6 *)

\* for each position of args, the canonical name its token is recorded
\* under: that of the parameter its name part matches when it is scanned as
\* a name, "" otherwise
RECURSIVE RecordedUnder(_, _, _, _)
RecordedUnder(full, args, R, k) ==
    IF k = 0 THEN <<>>
    ELSE Append(RecordedUnder(full, args, R, k-1),
                IF /\ R[k] = "name"
                   /\ args[k] # DashDash
                   /\ Has(full, NamePart(args[k]))
                THEN full[NamePart(args[k])].Name
                ELSE <<>>)

\* the value the token at position i records when it is scanned as a name
\* and matches a parameter: for a flag its non-default state; otherwise the
\* inline value, else the next token, else ""
RecordedValue(full, args, i) ==
    LET p == full[NamePart(args[i])] IN
    IF p.Flag THEN (IF p.Default = sTrue THEN sFalse ELSE sTrue)
    ELSE IF HasInline(args[i]) THEN InlineValue(args[i])
    ELSE IF i < Len(args) THEN args[i+1]
    ELSE <<>>

\* C6: the remainder of readCLI is, in order, the unsplit tokens scanned as
\* names that match no declared name or alias, then the tokens after a "--";
\* each flag token records one occurrence, the flag's non-default state,
\* whatever its inline value, and does not consume the token after it, which
\* is scanned as a name and recorded or left in the remainder on its own.
C6_RemainderAndFlags ==
    ret.op = "readCLI" =>
        LET R == Roles(expectedFull, ret.args)
            U == RecordedUnder(expectedFull, ret.args, R, Len(ret.args))
            V == [i \in 1..Len(ret.args) |->
                    IF U[i] = <<>> THEN <<>>
                    ELSE RecordedValue(expectedFull, ret.args, i)]
        IN
        /\ ret.remaining =
             Sub(ret.args, {i \in 1..Len(ret.args) :
                    \/ R[i] = "rest"
                    \/ R[i] = "name" /\ ret.args[i] # DashDash /\ U[i] = <<>>})
        /\ DOMAIN ret.found = Range(U) \ {<<>>}
        /\ \A n \in DOMAIN ret.found :
                ret.found[n] = Sub(V, {i \in 1..Len(ret.args) : U[i] = n})

\* a flag token with an inline value followed by an unmatched token that
\* holds a "=": the flag is recorded once and the token is in the remainder
C6_Witness ==
    /\ ret.op = "readCLI"
    /\ Len(ret.args) = 2
    /\ Has(expectedFull, NamePart(ret.args[1]))
    /\ expectedFull[NamePart(ret.args[1])].Flag
    /\ HasInline(ret.args[1])
    /\ HasInline(ret.args[2])
    /\ ret.remaining = <<ret.args[2]>>
    /\ ret.found[expectedFull[NamePart(ret.args[1])].Name] = <<sTrue>>

-----------------------------------------------------------------------------
(* C7 *)

\* C7: a parameter declared with DisallowInConfigFile, the auto-registered
\* --help, --config and --example among them, gets no entry in the result of
\* readConfig, nor in the config-file map that Parse folds.
C7_DisallowedNeverFromFile ==
    /\ (ret.op = "readConfig" /\ ~ret.err)
         => \A n \in DOMAIN ret.found : ~expected[n].DisallowInConfigFile
    /\ Parsed => \A n \in DOMAIN src.file : ~expected[n].DisallowInConfigFile

-----------------------------------------------------------------------------
(* C8 *)

\* the lines of stream r whose key is a suffix of the text s
LinesMatching(r, s) ==
    {k \in 1..Len(StreamLines(r)) :
        KeyValue(StreamLines(r)[k]) /\ HasSuffix(s, LineKey(StreamLines(r)[k]))}

\* the trimmed values of the lines of r at the positions in keep, in order
ValuesAt(r, keep) ==
    LET ls == StreamLines(r) IN
    Sub([k \in 1..Len(ls) |-> IF KeyValue(ls[k]) THEN LineValue(ls[k]) ELSE <<>>],
        keep)

\* C8: in readConfig, of a stream whose lines all end with a newline, a
\* parameter receives the trimmed value of a line if and only if its
\* file-name form ends with the line's key.
C8_FileNameFormSuffix ==
    (ret.op = "readConfig" /\ ~ret.err /\ Terminated(ret.r))
    => \A n \in DOMAIN expected :
         ValuesOf(ret.found, n)
            = ValuesAt(ret.r, LinesMatching(ret.r, configName(expected[n])))

-----------------------------------------------------------------------------
(* C9 *)

\* the entries of environ whose key (the text before the first "=") is key
EntriesWithKey(environ, key) ==
    {k \in 1..Len(environ) : NamePart(environ[k]) = key}

\* C9: readEnv gives parameter P exactly the values of the entries whose key
\* is UPPERCASE(appName) + "_" + UPPERCASE(file-name form of P) with "-"
\* replaced by "_", in scan order, under P's canonical name.
C9_ExactEnvKey ==
    ret.op = "readEnv" =>
        \A n \in DOMAIN expected :
            ValuesOf(ret.found, n)
                = Sub([k \in 1..Len(ret.environ) |-> InlineValue(ret.environ[k])],
                      EntriesWithKey(ret.environ, envKey(expected[n])))

-----------------------------------------------------------------------------
(* C10 *)

\* C10: when any line of the stream, the last one included, is malformed
\* (not blank, not a comment, no ":"), readConfig returns an error and a nil
\* map.
C10_MalformedLineFails ==
    (/\ ret.op = "readConfig"
     /\ \E k \in 1..Len(StreamLines(ret.r)) : Malformed(StreamLines(ret.r)[k]))
    => ret.err /\ ret.isNil

-----------------------------------------------------------------------------
(* C11 *)

\* C11: after New and any Add calls, every key of expectedFull maps to the
\* Param that expected holds under that Param's own Name, and each name of
\* expected and each of its aliases map in expectedFull to that same Param.
C11_RegistryConsistent ==
    /\ \A k \in DOMAIN expectedFull :
        /\ Has(expected, expectedFull[k].Name)
        /\ expected[expectedFull[k].Name] = expectedFull[k]
    /\ \A n \in DOMAIN expected :
        /\ Has(expectedFull, n) /\ expectedFull[n] = expected[n]
        /\ \A a \in Range(expected[n].Aliases) :
            Has(expectedFull, a) /\ expectedFull[a] = expected[n]

-----------------------------------------------------------------------------
(* C12 *)

\* C12: of a stream without malformed lines, whether or not its last line
\* ends with a newline, readConfig gives every parameter the trimmed values
\* of the key:value lines whose key selects it, in line order, and nothing
\* for blank and comment lines.
C12_EveryLineApplied ==
    (/\ ret.op = "readConfig"
     /\ \A k \in 1..Len(StreamLines(ret.r)) : ~Malformed(StreamLines(ret.r)[k]))
    => /\ ~ret.err
       /\ \A n \in DOMAIN expected :
            ValuesOf(ret.found, n) = ValuesAt(ret.r, LinesMatching(ret.r, n))

====
